---- MODULE Spec2Model ----
(***************************************************************************)
(* Session-orchestration core of EchoCode AI Interviewer:                  *)
(*   - the global audio playback queue of ElevenLabsTTS (app/layout.tsx),  *)
(*   - the sliding-window rate limiter (src/lib/rateLimit/index.ts),       *)
(*   - the debounce scheduler (src/lib/analysisScheduler.ts).              *)
(* Each component has its own specification over its own variables; the    *)
(* variables of the other components stay at their initial value.          *)
(***************************************************************************)
EXTENDS Integers, Sequences, FiniteSets, TLC

(***************************************************************************)
(* Bounds of the exploration.                                              *)
(***************************************************************************)
\* number of ElevenLabsTTS component instances sharing the module globals
NumInst == 2
\* number of distinct non-empty (trimmed) texts an instance may be given
NumTexts == 6
\* processQueue invocations that may be suspended at an await at once
MaxTasks == 2
\* items accepted into the queue over a whole run
MaxSpeaks == 6
\* clients (x-forwarded-for values) of the rate limiter
NumClients == 2
\* requests of all clients over a whole run
MaxCalls == 31
\* requests of the clients other than client 1 over a whole run
MaxOtherCalls == 1
\* clock advances over a whole run
MaxTicks == 2
\* calls of checkRateLimit by one client that probes while it is denied
MaxChecks == 62
\* sessions of the analysis scheduler
NumSessions == 2
\* distinct code payloads handed to the scheduler
NumCodes == 2
\* setTimeout calls of the scheduler over a whole run
MaxTimers == 4
\* the scheduler's clock advances in steps of TickMs, MaxSchedTicks times
TickMs == 1000
MaxSchedTicks == 8
\* requests the page sends to /api/analyze
MaxRequests == 3
\* entries of the conversation history
MaxHistory == 3
\* clock advances of the page
MaxPageTicks == 4
\* the short pieces of code given to the fallback analyzer have up to this
\* many characters, the long one has LongLen
MaxShortLen == 15
\* calls of canMakeRequest and clock advances over a whole run
MaxClientSteps == 8
LongLen == 50

(***************************************************************************)
(* Audio queue: module-level state and per-instance refs of layout.tsx.    *)
(***************************************************************************)
VARIABLES
    audioQueue,          \* let audioQueue: {text, onEnd}[]          (l.34)
    isPlaying,           \* let isPlaying = false                    (l.35)
    globalAudioContext,  \* let globalAudioContext: AudioContext|null (l.33)
    isMounted,           \* isMounted ref of every instance          (l.68)
    currentTextRef,      \* currentTextRef of every instance         (l.67)
    tasks,               \* processQueue invocations suspended at an await:
                         \*   pc "fetch": before source.start() (l.119-160)
                         \*   pc "playing": started, onended not yet run
                         \*   pc "closed": started, and the context of
                         \*     the source was closed before it ended
    nextSeq,             \* history: acceptance number of the next item
    maxText,             \* history: highest text number given so far
    lastStarted,         \* history: acceptance number of the item whose
                         \*          playback started most recently
    ev                   \* history: what the last step did

audioVars == <<audioQueue, isPlaying, globalAudioContext, isMounted,
               currentTextRef, tasks, nextSeq, maxText, lastStarted,
               ev>>

(***************************************************************************)
(* Rate limiter: module state of src/lib/rateLimit/index.ts and the        *)
(* response of POST /api/analyze.                                          *)
(***************************************************************************)
VARIABLES
    now,                 \* Date.now(), in ms
    tokenCache,          \* const tokenCache = new LRUCache(...)     (l.4)
    result,              \* what the last checkRateLimit call returned
    response,            \* what the last POST /api/analyze answered
    history,             \* history: the times of every client's requests
    ticks,               \* history: clock advances so far
    denials,             \* history: the denied calls, with their time and
                         \* the reset they returned
    backendReply         \* history: what openai.chat.completions.create
                         \*          did in the last POST /api/analyze, or
                         \*          NotCalled

rlVars ==
    <<tokenCache, result, response, history, ticks, backendReply, denials>>

(***************************************************************************)
(* Analysis scheduler: the fields of AnalysisScheduler and the timers of   *)
(* the runtime (src/lib/analysisScheduler.ts).                             *)
(***************************************************************************)
VARIABLES
    pendingAnalyses,     \* private pendingAnalyses: Map<string, ...> (l.7)
    timers,              \* the armed setTimeout timers of the scheduler
    nextTimerId,         \* the id the next setTimeout call returns
    lastCall,            \* history: the last scheduleAnalysis call of a
                         \*          session
    invoked,             \* history: callback invocations of a session
                         \*          since that call
    cancelled            \* history: the armed timers whose session has
                         \*          been cancelled since they were armed

schedVars == <<pendingAnalyses, timers, nextTimerId, lastCall, invoked,
               cancelled>>

(***************************************************************************)
(* Interview page: the state and refs of Home (app/page.tsx) and the       *)
(* speaking state of the Interviewer component it renders.                 *)
(***************************************************************************)
VARIABLES
    mounted,             \* Home is mounted
    pageCode,            \* const [code, setCode] = useState('')    (l.13)
    conversationHistory, \* its length                              (l.175)
    interviewerResponse, \* useState('')                            (l.15)
    isAnalyzing,         \* useState(false)                         (l.16)
    isTTSPlaying,        \* useState(false)                         (l.17)
    analysisTimer,       \* when the timeout of analysisTimerRef is due,
                         \* or NoTimer                              (l.20)
    countdownTimer,      \* the interval of countdownTimerRef runs  (l.21)
    isSpeaking,          \* Interviewer: useState(false), set by the
                         \* onSpeakingChange of its ElevenLabsTTS
    toSpeak,             \* a message of the interviewer waits to be spoken
    inFlight,            \* the fetch('/api/analyze') calls not yet settled
    sent,                \* history: requests sent so far
    pageTicks,           \* history: clock advances so far
    lastEdit             \* history: the time of the last handleCodeChange

pageVars == <<mounted, pageCode, conversationHistory, interviewerResponse,
              isAnalyzing, isTTSPlaying, analysisTimer, countdownTimer,
              isSpeaking, toSpeak, inFlight, sent, pageTicks, lastEdit>>

(***************************************************************************)
(* Fallback analyzer (src/lib/fallbackAnalyzer.ts): a call and its result. *)
(***************************************************************************)
VARIABLES
    analyzedCode,        \* the `code` argument of the last analyze call
    analyzeResult        \* what that call returned

analyzerVars == <<analyzedCode, analyzeResult>>

(***************************************************************************)
(* ClientRateLimiter (src/lib/rateLimit/index.ts): one instance.           *)
(***************************************************************************)
VARIABLES
    lastRequestTime,     \* private lastRequestTime = 0             (l.38)
    granted,             \* what the last canMakeRequest call returned
    grants,              \* history: Date.now() of the calls that returned
                         \* true
    clientSteps          \* history: calls and clock advances so far

clientVars == <<lastRequestTime, granted, grants, clientSteps>>

vars == <<audioVars, now, rlVars, schedVars, pageVars, analyzerVars,
          clientVars>>

\* everything but the audio queue
nonAudioVars == <<now, rlVars, schedVars, pageVars, analyzerVars, clientVars>>

\* everything but the rate limiter and the clock
nonRlVars == <<audioVars, schedVars, pageVars, analyzerVars, clientVars>>

\* everything but the scheduler and the clock
nonSchedVars == <<audioVars, rlVars, pageVars, analyzerVars, clientVars>>

\* everything but the page and the clock
nonPageVars == <<audioVars, rlVars, schedVars, analyzerVars, clientVars>>

\* everything but the fallback analyzer
nonAnalyzerVars == <<audioVars, now, rlVars, schedVars, pageVars, clientVars>>

\* everything but the ClientRateLimiter and the clock
nonClientVars == <<audioVars, rlVars, schedVars, pageVars, analyzerVars>>

\* the literal 5 of `if (audioQueue.length > 5)`
QUEUE_CAPACITY == 5

Inst == 1..NumInst

\* A text is a body (0 is the empty body) with or without surrounding
\* white space.
InputText == [pad : BOOLEAN, body : 0..NumTexts]

\* String.prototype.trim(): drops the surrounding white space
trim(text) == [pad |-> FALSE, body |-> text.body]

\* ''
EmptyText == [pad |-> FALSE, body |-> 0]

NoEvent == [op |-> "step", flag |-> FALSE]

\* s without its k-th element
RemoveAt(s, k) == SubSeq(s, 1, k - 1) \o SubSeq(s, k + 1, Len(s))

\* the texts numbered so far: texts are compared for equality only, so a
\* text not seen before is given the next free number
KnownTexts == {text \in InputText : text.body <= maxText + 1}

\* the module state a processQueue call reads and writes
AudioState ==
    [audioQueue |-> audioQueue, isPlaying |-> isPlaying,
     globalAudioContext |-> globalAudioContext,
     currentTextRef |-> currentTextRef, tasks |-> tasks, ok |-> TRUE]

(***************************************************************************)
(* processQueue, from its call to its first await (fetch).  `ok` is FALSE  *)
(* when the call would suspend a further invocation beyond MaxTasks.       *)
(***************************************************************************)
RECURSIVE processQueue(_, _)
processQueue(i, st) ==
    IF st.isPlaying \/ st.audioQueue = <<>> \/ ~isMounted[i]
    THEN st
    ELSE LET head == Head(st.audioQueue)
             s1 == [st EXCEPT !.isPlaying = TRUE,
                              !.currentTextRef[i] = head.text]
         IN  IF trim(head.text) = EmptyText
             THEN \* throw 'Empty text provided', outer catch (l.209-224)
                  LET s2 == [s1 EXCEPT !.audioQueue = Tail(@),
                                       !.isPlaying = FALSE]
                  IN  IF s2.audioQueue # <<>>
                      THEN processQueue(i, s2)
                      ELSE s2
             ELSE IF Len(s1.tasks) >= MaxTasks
             THEN [s1 EXCEPT !.ok = FALSE]
             ELSE [s1 EXCEPT
                     !.globalAudioContext = "running",
                     !.tasks = Append(@, [pc |-> "fetch", inst |-> i,
                                          item |-> head])]

\* commit the state a handler computed
Commit(st) ==
    /\ st.ok
    /\ audioQueue' = st.audioQueue
    /\ isPlaying' = st.isPlaying
    /\ globalAudioContext' = st.globalAudioContext
    /\ currentTextRef' = st.currentTextRef
    /\ tasks' = st.tasks

QueueTexts(q) == {q[n].text : n \in 1..Len(q)}

alreadyQueued_never(q, text) == FALSE

\* audioQueue.some(item => item.text === textToSpeak)  (l.237)
alreadyQueued(q, text) == text \in QueueTexts(q)

trimQueue_never(q) == q

\* if (audioQueue.length > 5) audioQueue.shift()  (l.260-262)
trimQueue(q) == IF Len(q) > QUEUE_CAPACITY THEN Tail(q) ELSE q

\* the acceptance numbers of the items whose audio is playing
PlayingSeqs(ts) ==
    {ts[k].item.seq : k \in {j \in 1..Len(ts) : ts[j].pc = "playing"}}

(***************************************************************************)
(* speak (l.227-263), called by the text effect's timer while mounted.     *)
(***************************************************************************)
Speak(i, text) ==
    /\ isMounted[i]
    /\ LET textToSpeak == trim(text) IN
       IF textToSpeak = EmptyText
       THEN /\ UNCHANGED <<audioQueue, isPlaying, globalAudioContext,
                           currentTextRef, tasks, nextSeq>>
            /\ ev' = [op |-> "step", flag |-> FALSE]
       ELSE IF alreadyQueued(audioQueue, textToSpeak)
       THEN /\ UNCHANGED <<audioQueue, isPlaying, globalAudioContext,
                           currentTextRef, tasks, nextSeq>>
            /\ ev' = [op |-> "duplicate", flag |-> FALSE]
       ELSE /\ nextSeq <= MaxSpeaks
            /\ LET newItem == [text |-> textToSpeak, onEnd |-> i,
                               seq |-> nextSeq]
                   s0 == [AudioState EXCEPT
                            !.audioQueue = Append(@, newItem)]
                   s1 == IF ~s0.isPlaying THEN processQueue(i, s0) ELSE s0
                   over == Len(s1.audioQueue) > QUEUE_CAPACITY
                   s2 == [s1 EXCEPT !.audioQueue = trimQueue(@)]
               IN  /\ Commit(s2)
                   /\ ev' = IF over
                            THEN [op |-> "evict",
                                  flag |-> Head(s1.audioQueue).seq
                                             \in PlayingSeqs(s1.tasks)]
                            ELSE [op |-> "step", flag |-> FALSE]
            /\ nextSeq' = nextSeq + 1
    /\ maxText' = IF text.body > maxText THEN text.body ELSE maxText
    /\ UNCHANGED <<isMounted, lastStarted, nonAudioVars>>

(***************************************************************************)
(* Continuations of a suspended processQueue invocation k.                 *)
(***************************************************************************)
\* fetch rejects or the response is not ok: inner catch, `return` (l.139-145)
FetchFail(k) ==
    /\ k \in 1..Len(tasks)
    /\ tasks[k].pc = "fetch"
    /\ tasks' = RemoveAt(tasks, k)
    /\ ev' = [op |-> "step", flag |-> FALSE]
    /\ UNCHANGED <<audioQueue, isPlaying, globalAudioContext, isMounted,
                   currentTextRef, nextSeq, maxText, lastStarted, nonAudioVars>>

\* the response is ok but the audio data is empty, the context was released
\* meanwhile or decodeAudioData rejects: catch of l.189-207
DecodeFail(k) ==
    /\ k \in 1..Len(tasks)
    /\ tasks[k].pc = "fetch"
    /\ LET s0 == [AudioState EXCEPT
                    !.tasks = RemoveAt(@, k),
                    !.isPlaying = FALSE,
                    !.audioQueue = IF @ = <<>> THEN @ ELSE Tail(@)]
           s1 == IF s0.audioQueue # <<>>
                 THEN processQueue(tasks[k].inst, s0)
                 ELSE s0
       IN  Commit(s1)
    /\ ev' = [op |-> "step", flag |-> FALSE]
    /\ UNCHANGED <<isMounted, nextSeq, maxText, lastStarted, nonAudioVars>>

\* the response is ok, the audio is decoded, the source is created and
\* started (l.119-187); the awaits in between touch no shared state
DecodeOk(k) ==
    /\ k \in 1..Len(tasks)
    /\ tasks[k].pc = "fetch"
    /\ globalAudioContext # "null"
    /\ tasks' = [tasks EXCEPT ![k].pc = "playing"]
    /\ lastStarted' = tasks[k].item.seq
    /\ ev' = [op |-> "step", flag |-> FALSE]
    /\ UNCHANGED <<audioQueue, isPlaying, globalAudioContext, isMounted,
                   currentTextRef, nextSeq, maxText, nonAudioVars>>

\* source.onended (l.168-184).  Whether a source whose context was closed
\* still reports its end is left to the browser.
OnEnded(k) ==
    /\ k \in 1..Len(tasks)
    /\ tasks[k].pc \in {"playing", "closed"}
    /\ LET s0 == [AudioState EXCEPT
                    !.tasks = RemoveAt(@, k),
                    !.audioQueue = IF @ = <<>> THEN @ ELSE Tail(@),
                    !.isPlaying = FALSE]
           s1 == IF s0.audioQueue # <<>>
                 THEN processQueue(tasks[k].inst, s0)
                 ELSE s0
       IN  Commit(s1)
    /\ ev' = [op |-> "step", flag |-> FALSE]
    /\ UNCHANGED <<isMounted, nextSeq, maxText, lastStarted, nonAudioVars>>

(***************************************************************************)
(* Cleanup of the unmount effect (l.266-291).                              *)
(***************************************************************************)
\* the cleanup without its reset of the playing flag
cleanup_keepsPlaying(i, st) ==
    LET q == SelectSeq(st.audioQueue,
                       LAMBDA item : item.text # st.currentTextRef[i])
        closes == st.globalAudioContext # "null" /\ q = <<>>
    IN  [st EXCEPT !.audioQueue = q,
                   !.globalAudioContext = IF closes THEN "null" ELSE @]

\* the cleanup function of the effect (l.267-289), but for isMounted
cleanup(i, st) ==
    LET q == SelectSeq(st.audioQueue,
                       LAMBDA item : item.text # st.currentTextRef[i])
        closes == st.globalAudioContext # "null" /\ q = <<>>
    IN  [st EXCEPT
            !.audioQueue = q,
            !.globalAudioContext = IF closes THEN "null" ELSE @,
            !.isPlaying = IF q = <<>> THEN FALSE ELSE @,
            \* globalAudioContext.close() silences the sources it plays
            !.tasks = IF closes
                      THEN [k \in 1..Len(@) |->
                              IF @[k].pc = "playing"
                              THEN [@[k] EXCEPT !.pc = "closed"]
                              ELSE @[k]]
                      ELSE @]

Unmount(i) ==
    /\ isMounted[i]
    /\ isMounted' = [isMounted EXCEPT ![i] = FALSE]
    /\ Commit(cleanup(i, AudioState))
    /\ ev' = [op |-> "step", flag |-> FALSE]
    /\ UNCHANGED <<nextSeq, maxText, lastStarted, nonAudioVars>>

AudioInit ==
    /\ audioQueue = <<>>
    /\ isPlaying = FALSE
    /\ globalAudioContext = "null"
    /\ isMounted = [i \in Inst |-> TRUE]
    /\ currentTextRef = [i \in Inst |-> EmptyText]
    /\ tasks = <<>>
    /\ nextSeq = 1
    /\ maxText = 0
    /\ lastStarted = 0
    /\ ev = NoEvent

AudioNext ==
    \/ \E i \in Inst, text \in KnownTexts : Speak(i, text)
    \/ \E k \in 1..MaxTasks : FetchFail(k)
    \/ \E k \in 1..MaxTasks : DecodeFail(k)
    \/ \E k \in 1..MaxTasks : DecodeOk(k)
    \/ \E k \in 1..MaxTasks : OnEnded(k)
    \/ \E i \in Inst : Unmount(i)

(***************************************************************************)
(* Properties of the audio queue.                                          *)
(***************************************************************************)
QueueSeqs(q) == {q[n].seq : n \in 1..Len(q)}

\* C1: a synthesis or playback failure of an item removes that item from
\* the queue and either clears the playing flag (nothing left) or leaves an
\* invocation working on the new head, so the queue never stalls.
C1_FailureAdvances ==
    [][\A k \in 1..Len(tasks) :
          (FetchFail(k) \/ DecodeFail(k)) =>
              /\ tasks[k].item.seq \notin QueueSeqs(audioQueue')
              /\ IF audioQueue' = <<>>
                 THEN ~isPlaying'
                 \* no invocation was removed but k, one was added
                 ELSE Len(tasks') = Len(tasks)]_vars

\* C2: at most one queue item is being synthesized or played at a time.
C2_SingleFlight ==
    Cardinality({k \in 1..Len(tasks) :
                    tasks[k].pc \in {"fetch", "playing"}}) <= 1

\* C3: playback starts in acceptance order, and only when no other playback
\* is still running.
C3_FifoPlayback ==
    [][\A k \in 1..Len(tasks) :
          DecodeOk(k) =>
              /\ tasks[k].item.seq > lastStarted
              /\ \A j \in 1..Len(tasks) : tasks[j].pc # "playing"]_vars

\* C4: the item evicted on overflow is never the one whose audio is playing.
C4_EvictsNonPlaying == ev.op = "evict" => ~ev.flag

\* C5: the queue never holds more than 5 items.
C5_QueueBounded == Len(audioQueue) <= QUEUE_CAPACITY

\* an enqueue has just overflowed the queue and the queue is full
C5_Witness == ev.op = "evict" /\ Len(audioQueue) = QUEUE_CAPACITY

\* C6: an enqueue of a text already in the queue changes nothing, and no two
\* queue items ever have the same text.
C6_NoDuplicateText ==
    [][/\ ev'.op = "duplicate" =>
            UNCHANGED <<audioQueue, isPlaying, globalAudioContext,
                        currentTextRef, tasks>>
       /\ \A m, n \in 1..Len(audioQueue') :
            audioQueue'[m].text = audioQueue'[n].text => m = n]_vars

\* an enqueue of the text of the item being synthesized or played has just
\* been ignored, with other items waiting behind it
C6_Witness ==
    /\ ev.op = "duplicate"
    /\ Len(audioQueue) >= 2
    /\ tasks # <<>>

\* C20: the teardown of an instance removes from the queue the items this
\* instance enqueued, all of them and no others.
C20_TeardownRemovesOwnItems ==
    [][\A i \in Inst :
          Unmount(i) =>
              audioQueue' = SelectSeq(audioQueue,
                                      LAMBDA item : item.onEnd # i)]_vars

\* C36: when the playback that a torn-down instance started ends or fails
\* while items of other instances remain in the queue, the queue goes on:
\* the playing flag is set and an invocation of processQueue is at work on
\* the head.
C36_ProgressAfterTeardown ==
    [][\A k \in 1..MaxTasks :
          ((OnEnded(k) \/ DecodeFail(k)) /\ ~isMounted[tasks[k].inst]) =>
             \/ \A n \in 1..Len(audioQueue') :
                   audioQueue'[n].onEnd = tasks[k].inst
             \/ /\ isPlaying'
                /\ \E j \in 1..Len(tasks') :
                      tasks'[j].pc \in {"fetch", "playing"}]_vars

\* C26: when the playback of an item ends or fails, the queue entry that is
\* removed is the entry of that item.
C26_RemovesPlayedItem ==
    [][\A k \in 1..MaxTasks :
          (OnEnded(k) \/ DecodeFail(k)) =>
             (audioQueue # <<>> =>
                 Head(audioQueue).seq = tasks[k].item.seq)]_vars

\* C21: running the teardown again right after a teardown changes nothing,
\* and a teardown that leaves the queue empty leaves the playing flag false
\* and the audio context released.
C21_TeardownIdempotent ==
    [][\A i \in Inst :
          Unmount(i) =>
              /\ cleanup(i, AudioState') = AudioState'
              /\ audioQueue' = <<>> =>
                    ~isPlaying' /\ globalAudioContext' = "null"]_vars

\* a teardown has emptied the queue while an item was in progress
C21_Witness ==
    /\ \E i \in Inst : ~isMounted[i]
    /\ audioQueue = <<>>
    /\ tasks # <<>>

(***************************************************************************)
(* Rate limiter (src/lib/rateLimit/index.ts).                              *)
(***************************************************************************)
\* RATE_LIMIT.WINDOW_MS
WINDOW_MS == 60000
\* RATE_LIMIT.MAX_REQUESTS
MAX_REQUESTS == 30
\* new LRUCache({ max: 1000, ttl: 1000 * 60 * 15 })
CACHE_MAX == 1000
CACHE_TTL == 1000 * 60 * 15

Clients == 1..NumClients

\* the clock moves by a millisecond or by just less than the window
ClockSteps == {1, WINDOW_MS - 1}

Max(a, b) == IF a >= b THEN a ELSE b

Ceil_floor(a, b) == a \div b

\* Math.ceil(a / b) for b > 0
Ceil(a, b) == -((-a) \div b)

\* The LRUCache: its entries, the least recently used first.
cacheIndex(cache, key) ==
    IF \E n \in 1..Len(cache) : cache[n].key = key
    THEN CHOOSE n \in 1..Len(cache) : cache[n].key = key
    ELSE 0

\* LRUCache.get: undefined (here <<>>, as in `|| []`) for a missing or a
\* stale entry, which is deleted; a hit becomes the most recently used
cacheGet(cache, key, t) ==
    LET n == cacheIndex(cache, key) IN
    IF n = 0
    THEN [cache |-> cache, value |-> <<>>]
    ELSE IF t - cache[n].start > CACHE_TTL
    THEN [cache |-> RemoveAt(cache, n), value |-> <<>>]
    ELSE [cache |-> Append(RemoveAt(cache, n), cache[n]),
          value |-> cache[n].value]

\* LRUCache.set: the entry becomes the most recently used and its age
\* restarts; a new key beyond `max` evicts the least recently used entry
cacheSet(cache, key, value, t) ==
    LET n == cacheIndex(cache, key)
        entry == [key |-> key, value |-> value, start |-> t]
    IN  IF n # 0
        THEN Append(RemoveAt(cache, n), entry)
        ELSE IF Len(cache) >= CACHE_MAX
        THEN Append(Tail(cache), entry)
        ELSE Append(cache, entry)

\* the value stored for a key, whatever its age
stored(cache, key) ==
    IF cacheIndex(cache, key) = 0
    THEN <<>>
    ELSE cache[cacheIndex(cache, key)].value

exceedsLimit_offByOne(n) == n > MAX_REQUESTS

\* recentRequests.length >= RATE_LIMIT.MAX_REQUESTS  (l.23)
exceedsLimit(n) == n >= MAX_REQUESTS

\* checkRateLimit (l.15-34) at time t: the cache and the result after it
checkRateLimit(cache, ip, t) ==
    LET got == cacheGet(cache, ip, t)
        tokenState == got.value
        recentRequests ==
            SelectSeq(tokenState, LAMBDA time : t - time < WINDOW_MS)
        isRateLimited == exceedsLimit(Len(recentRequests))
        pushed == Append(recentRequests, t)
    IN  [cache |-> cacheSet(got.cache, ip, pushed, t),
         result |->
            [isRateLimited |-> isRateLimited,
             remaining |-> Max(0, MAX_REQUESTS - Len(pushed)),
             reset |-> Ceil(pushed[1] + WINDOW_MS - t, 1000)]]

NoResult == [isRateLimited |-> FALSE, remaining |-> MAX_REQUESTS, reset |-> 0]

\* The texts of the responses. A text is its name and its length; a text
\* of the backend is named by how it was made.
Text(name, len) == [text |-> name, len |-> len]
NoText == Text("", 0)

\* the feedback strings of FallbackAnalyzer (fallbackAnalyzer.ts l.18-69)
KeepGoing == Text("keepGoing", 64)
RULES_conditionalFirst ==
    << [name |-> "conditional", priority |-> 1,
        feedback |-> Text("conditional", 70)],
       [name |-> "loop",        priority |-> 1, feedback |-> Text("loop", 73)],
       [name |-> "function",    priority |-> 2,
        feedback |-> Text("function", 69)],
       [name |-> "arrow",       priority |-> 2, feedback |-> Text("arrow", 69)],
       [name |-> "consoleLog",  priority |-> 3,
        feedback |-> Text("consoleLog", 119)] >>

RULES ==
    << [name |-> "loop",        priority |-> 1, feedback |-> Text("loop", 73)],
       [name |-> "conditional", priority |-> 1,
        feedback |-> Text("conditional", 70)],
       [name |-> "function",    priority |-> 2,
        feedback |-> Text("function", 69)],
       [name |-> "arrow",       priority |-> 2, feedback |-> Text("arrow", 69)],
       [name |-> "consoleLog",  priority |-> 3,
        feedback |-> Text("consoleLog", 119)] >>
defaultResponses ==
    << Text("lookingGood", 32), Text("progress", 52), Text("niceWork", 42),
       Text("keepItUp", 54) >>

\* the threshold of `length < 10` in route.ts (l.69, l.197) and in
\* fallbackAnalyzer.ts (l.47)
MIN_LENGTH == 10

\* A piece of code, by what the handlers ask of it: its trimmed length and
\* the rules whose pattern it matches.
CodeLens == {MIN_LENGTH - 1, MIN_LENGTH}
CodeInputs == [len : CodeLens, matches : {{}, {"loop", "conditional"}}]

Before_declaredOrder(m, n) == m < n

\* the position of a rule in [...RULES].sort((a, b) => b.priority -
\* a.priority): the sort is stable
Before(m, n) ==
    \/ RULES[m].priority > RULES[n].priority
    \/ RULES[m].priority = RULES[n].priority /\ m < n

analyze_rulesFirst(codeInput, pick) ==
    LET hits == {n \in 1..Len(RULES) : RULES[n].name \in codeInput.matches}
    IN  IF hits # {}
        THEN RULES[CHOOSE n \in hits :
                      \A m \in hits \ {n} : Before(n, m)].feedback
        ELSE IF codeInput.len < MIN_LENGTH
        THEN KeepGoing
        ELSE defaultResponses[pick]

\* FallbackAnalyzer.analyze (l.46-69); pick is the index Math.random gives
analyze(codeInput, pick) ==
    IF codeInput.len < MIN_LENGTH
    THEN KeepGoing
    ELSE LET hits == {n \in 1..Len(RULES) : RULES[n].name \in codeInput.matches}
         IN  IF hits # {}
             THEN RULES[CHOOSE n \in hits :
                           \A m \in hits \ {n} : Before(n, m)].feedback
             ELSE defaultResponses[pick]

\* What the backend does with a request: it rejects (abort after the
\* timeout, HTTP 429, invalid key, any other error), or it answers without
\* a message, or with a message whose content and reasoning are given by
\* their trimmed length, whether they are padded with white space and
\* whether they end with a question mark.
Rejections == {"AbortError", "other"}
ContentLens == {0, MIN_LENGTH - 1, MIN_LENGTH}
Contents ==
    {c \in [len : ContentLens, pad : BOOLEAN, q : BOOLEAN] :
        /\ c.q => c.len > 0
        /\ c.pad => c.len = 0}
NoContent == [len |-> 0, pad |-> FALSE, q |-> FALSE]
Backends ==
    [kind : {"rejects"}, error : Rejections]
    \cup [kind : {"nomessage"}]
    \cup [kind : {"message"}, content : Contents, reasoning : {NoContent}]
    \cup [kind : {"message"}, content : {NoContent},
          reasoning : {[len |-> MIN_LENGTH, pad |-> FALSE, q |-> TRUE]}]

\* the request did not get to openai.chat.completions.create
NotCalled == [kind |-> "none"]

\* a string is truthy unless it is ''
truthy(c) == c.len > 0 \/ c.pad

\* the shortest fallbackQuestion of l.177-191
QUESTION_LEN == 87

\* the feedback made of the message of the backend (l.148-199), or NoText
\* where the handler throws
backendFeedback(message) ==
    LET raw == IF truthy(message.content) THEN message.content
               ELSE IF truthy(message.reasoning) THEN message.reasoning
               ELSE NoContent
        \* .trim() and the clean-up leave the trimmed text
        withQuestion ==
            IF raw.q
            THEN Text("model", raw.len)
            ELSE Text(IF raw.len = 0 THEN "question" ELSE "model+question",
                      raw.len + 1 + QUESTION_LEN)
    IN  IF ~truthy(message.content) /\ ~truthy(message.reasoning)
        THEN NoText       \* throw new Error('Unexpected response format')
        ELSE IF withQuestion.len < MIN_LENGTH
        THEN NoText       \* throw new Error('No valid feedback ...')
        ELSE withQuestion

\* the request bodies: request.json() throws, or gives language, code and
\* isChat
ValidBody ==
    [json |-> TRUE, language |-> TRUE,
     code |-> [len |-> MIN_LENGTH, matches |-> {}], isChat |-> FALSE]
Bodies ==
    {[ValidBody EXCEPT !.json = FALSE], [ValidBody EXCEPT !.language = FALSE]}
    \cup [json : {TRUE}, language : {TRUE}, code : CodeInputs,
          isChat : BOOLEAN]

\* the values Math.random can pick for a piece of code: analyze calls it
\* only when the code is long enough and no rule matches (l.68)
Picks_skipsLast(codeInput) ==
    IF codeInput.len < MIN_LENGTH \/ codeInput.matches # {}
    THEN {1}
    ELSE 1..(Len(defaultResponses) - 1)

\* Math.floor(Math.random() * defaultResponses.length) + 1, where it is
\* evaluated (fallbackAnalyzer.ts l.69)
Picks(codeInput) ==
    IF codeInput.len < MIN_LENGTH \/ codeInput.matches # {}
    THEN {1}
    ELSE 1..Len(defaultResponses)

\* no response yet
NoResponse ==
    [status |-> 0, isFallback |-> FALSE, remaining |-> 0, reset |-> 0,
     feedback |-> NoText]

\* NextResponse.json({feedback, isFallback}, {status})
Json(feedback, isFallback, status) ==
    [NoResponse EXCEPT !.status = status, !.isFallback = isFallback,
                       !.feedback = feedback]

\* the rate-limit notice of POST /api/analyze (l.33-51)
rateLimitNotice(r) ==
    [Json(Text("rateLimit", 63), TRUE, 429) EXCEPT
        !.remaining = r.remaining, !.reset = r.reset]

\* an admitted request reaches the backend unless its body is refused
\* (l.53-75)
reachesBackend(body) ==
    /\ body.json
    /\ body.language
    /\ body.isChat \/ body.code.len >= MIN_LENGTH

\* POST /api/analyze after admission (l.53-273)
analyzeResponse(body, backend, pick) ==
    IF ~body.json
    THEN Json(Text("trouble", 135), TRUE, 500)
    ELSE IF ~body.language
    THEN Json(Text("language", 60), TRUE, 400)
    ELSE IF ~body.isChat /\ body.code.len < MIN_LENGTH
    THEN Json(Text("moreCode", 74), TRUE, 400)
    ELSE LET feedback == IF backend.kind = "message"
                         THEN backendFeedback(backend)
                         ELSE NoText
             fallbackFeedback == analyze(body.code, pick)
         IN  IF feedback # NoText
             THEN Json(feedback, FALSE, 200)
             ELSE Json(IF fallbackFeedback.len > 0 THEN fallbackFeedback
                       ELSE Text("reviewed", 70), TRUE, 200)

admitted_always(r) == TRUE

\* the handler goes on unless `if (rateLimit.isRateLimited)` returns (l.33)
admitted(r) == ~r.isRateLimited

\* history: what a denied call told the client
Denial(ip, res, t) ==
    IF res.isRateLimited
    THEN {[ip |-> ip, at |-> t, reset |-> res.reset]}
    ELSE {}

\* POST /api/analyze from client ip (x-forwarded-for) (l.28-273)
PostAnalyze(ip, body, backend, pick) ==
    /\ Len(history[1]) < MaxCalls
    /\ ip # 1 => Len(history[ip]) < MaxOtherCalls
    /\ LET r == checkRateLimit(tokenCache, ip, now) IN
        /\ tokenCache' = r.cache
        /\ result' = r.result
        /\ response' = IF admitted(r.result)
                       THEN analyzeResponse(body, backend, pick)
                       ELSE rateLimitNotice(r.result)
        /\ backendReply' = IF admitted(r.result) /\ reachesBackend(body)
                           THEN backend ELSE NotCalled
        /\ denials' = denials \cup Denial(ip, r.result, now)
    /\ history' = [history EXCEPT ![ip] = Append(@, now)]
    /\ UNCHANGED <<now, ticks, nonRlVars>>

\* checkRateLimit(ip), called for a client that comes back again and again
CheckRateLimit(ip) ==
    /\ Len(history[ip]) < MaxChecks
    /\ LET r == checkRateLimit(tokenCache, ip, now) IN
        /\ tokenCache' = r.cache
        /\ result' = r.result
        /\ denials' = denials \cup Denial(ip, r.result, now)
    /\ history' = [history EXCEPT ![ip] = Append(@, now)]
    /\ UNCHANGED <<response, backendReply, now, ticks, nonRlVars>>

\* time passes
RlTick(d) ==
    /\ ticks < MaxTicks
    /\ now' = now + d
    /\ ticks' = ticks + 1
    /\ UNCHANGED <<tokenCache, result, response, history, backendReply, denials,
                   nonRlVars>>

RlInit ==
    /\ now = 0
    /\ tokenCache = <<>>
    /\ result = NoResult
    /\ response = NoResponse
    /\ history = [c \in Clients |-> <<>>]
    /\ ticks = 0
    /\ backendReply = NotCalled
    /\ denials = {}

\* a backend that answers with a complete text
GoodBackend ==
    [kind |-> "message",
     content |-> [len |-> MIN_LENGTH, pad |-> FALSE, q |-> TRUE],
     reasoning |-> NoContent]

\* the clients send well-formed requests and the backend answers
RlNext ==
    \/ \E ip \in Clients : PostAnalyze(ip, ValidBody, GoodBackend, 1)
    \/ \E d \in ClockSteps : RlTick(d)

\* the clients that come once the first has used up its window: as many
\* as the cache has room for
OtherClients == (NumClients + 1)..(NumClients + CACHE_MAX)

\* checkRateLimit(ip) for a client the cache has not seen, while the
\* entry of client 1 is in the cache with MAX_REQUESTS timestamps
OtherClientCheck ==
    /\ Len(history[1]) = MAX_REQUESTS
    /\ cacheIndex(tokenCache, 1) # 0
    /\ \E ip \in {NumClients + Len(tokenCache)} \cap OtherClients :
          LET r == checkRateLimit(tokenCache, ip, now) IN
            /\ tokenCache' = r.cache
            /\ result' = r.result
            /\ denials' = denials \cup Denial(ip, r.result, now)
    /\ UNCHANGED <<response, history, backendReply, now, ticks, nonRlVars>>

\* client 1 uses up its window and comes once more
FirstClientCheck ==
    /\ Len(history[1]) <= MAX_REQUESTS
    /\ CheckRateLimit(1)

\* time passes before the last call of client 1 that its window admits
FirstClientWaits(d) ==
    /\ Len(history[1]) = MAX_REQUESTS - 1
    /\ RlTick(d)

\* one client among many
CrowdNext ==
    \/ FirstClientCheck
    \/ OtherClientCheck
    \/ \E d \in ClockSteps : FirstClientWaits(d)

\* one client calls checkRateLimit again and again while time passes
RetryNext ==
    \/ CheckRateLimit(1)
    \/ \E d \in ClockSteps : RlTick(d)

\* one client sends any requests, one after the other, and the backend
\* does anything
AnalyzeNext ==
    \E body \in Bodies, backend \in Backends :
       \E pick \in Picks(body.code) : PostAnalyze(1, body, backend, pick)

(***************************************************************************)
(* Properties of the rate limiter.                                         *)
(***************************************************************************)
\* the number of requests among `times` that lie in the window ending at t
InWindow(times, t) ==
    Cardinality({n \in 1..Len(times) : t - times[n] < WINDOW_MS})

\* a request of client c has just been answered
Answered(c) == Len(history'[c]) = Len(history[c]) + 1

C8_DeniedNotStored ==
    [][\A c \in Clients :
          (Answered(c) /\ result'.isRateLimited) =>
              stored(tokenCache', c) =
                  SelectSeq(stored(tokenCache, c),
                            LAMBDA time : now - time < WINDOW_MS)]_vars

\* C35: whether a call of a client is denied depends on the times of its
\* own earlier calls only: it is denied if and only if MAX_REQUESTS of them
\* or more lie in the window, whatever other clients called in between.
C35_OwnRequestsDecide ==
    [][\A c \in Clients :
          Answered(c) =>
             (result'.isRateLimited <=>
                 InWindow(history[c], now) >= MAX_REQUESTS)]_vars

\* C29: a client that was denied at time t with reset = r is admitted by
\* the first check it makes r seconds after t or later, whatever checks it
\* made in between.
C29_RetryAfterHonoured ==
    [][\A d \in denials :
          (/\ Answered(d.ip)
           /\ now >= d.at + 1000 * d.reset
           /\ \A n \in 1..Len(history[d.ip]) :
                 history[d.ip][n] < d.at + 1000 * d.reset) =>
             ~result'.isRateLimited]_vars

\* C27: after every checkRateLimit call the list stored for the client is
\* in non-decreasing order and holds only timestamps at most WINDOW_MS old,
\* and every timestamp of the list found that is at most WINDOW_MS old (one
\* of exactly WINDOW_MS included) is still in it.
C27_PrunedOnlyIfOlder ==
    [][\A c \in Clients :
          Answered(c) =>
             LET old == stored(tokenCache, c)
                 new == stored(tokenCache', c)
             IN  /\ \A m, n \in 1..Len(new) : m <= n => new[m] <= new[n]
                 /\ \A n \in 1..Len(new) : now - new[n] <= WINDOW_MS
                 /\ \A n \in 1..Len(old) :
                       now - old[n] <= WINDOW_MS =>
                          \E m \in 1..Len(new) : new[m] = old[n]]_vars

\* C28: on every denied call reset is the number of seconds, rounded up,
\* until the oldest timestamp that remains in the client's window is
\* WINDOW_MS old, and it lies between 1 and WINDOW_MS / 1000.
C28_ResetOnDenial ==
    [][\A c \in Clients :
          (Answered(c) /\ result'.isRateLimited) =>
             LET old == stored(tokenCache, c)
                 remaining == {old[n] : n \in {m \in 1..Len(old) :
                                                now - old[m] < WINDOW_MS}}
             IN  /\ remaining # {}
                 /\ \E oldest \in remaining :
                       /\ \A time \in remaining : oldest <= time
                       /\ 1000 * (result'.reset - 1)
                             < oldest + WINDOW_MS - now
                       /\ oldest + WINDOW_MS - now <= 1000 * result'.reset
                 /\ 1 <= result'.reset
                 /\ result'.reset <= WINDOW_MS \div 1000]_vars

\* a request was denied one millisecond before the window of the first
\* request closed
C28_Witness ==
    /\ result.isRateLimited
    /\ result.reset = 1
    /\ now = WINDOW_MS - 1

\* the backend call of the last request failed: it was rejected, or gave
\* no message, or a content that is empty or shorter than MIN_LENGTH (and
\* no reasoning in its place)
BackendFailed ==
    \/ backendReply.kind \in {"rejects", "nomessage"}
    \/ /\ backendReply.kind = "message"
       /\ backendReply.content.len < MIN_LENGTH
       /\ ~truthy(backendReply.reasoning)

\* the texts the fallback path answers with (l.242-256)
FallbackTexts ==
    {KeepGoing.text, "reviewed"}
    \cup {RULES[n].feedback.text : n \in 1..Len(RULES)}
    \cup {defaultResponses[n].text : n \in 1..Len(defaultResponses)}

\* C15: when the backend call of an admitted, valid request fails, the
\* response has a non-empty feedback of the fallback path, isFallback set
\* and no error status.
C15_BackendFailureFallsBack ==
    BackendFailed =>
        /\ response.feedback.len > 0
        /\ response.feedback.text \in FallbackTexts
        /\ response.isFallback
        /\ response.status = 200

\* C34: every response carries a non-empty feedback, and isFallback is
\* false only when the backend was called, answered with a message and the
\* feedback holds the text of that message.
C34_FeedbackAndFlag ==
    response # NoResponse =>
        /\ response.feedback.len > 0
        /\ response.isFallback \in BOOLEAN
        /\ ~response.isFallback =>
              /\ backendReply.kind = "message"
              /\ response.feedback.text \in {"model", "model+question"}

\* C16: a request the rate limiter denies does not call the backend and is
\* answered with the rate-limit notice.
C16_DeniedSkipsBackend ==
    result.isRateLimited =>
        /\ backendReply = NotCalled
        /\ response = rateLimitNotice(result)
        /\ response.status = 429
        /\ response.feedback.text = "rateLimit"

\* a request has been denied after the backend was called for earlier ones
C16_Witness ==
    /\ result.isRateLimited
    /\ Len(history[1]) = MAX_REQUESTS + 1
    /\ response.status = 429

(***************************************************************************)
(* Analysis scheduler (src/lib/analysisScheduler.ts).                      *)
(***************************************************************************)
\* private readonly DEFAULT_DEBOUNCE = 3000
DEFAULT_DEBOUNCE == 3000
\* cleanupOldSessions(maxAgeMs = 5 * 60 * 1000)
DEFAULT_MAX_AGE == 5 * 60 * 1000

Sessions == 1..NumSessions
Codes == 1..NumCodes

\* what the caller's callback does: nothing to the scheduler, or it calls
\* scheduleAnalysis for its own session again
Callbacks == {"plain", "reschedule"}

\* the debounceMs and maxAgeMs arguments tried
Debounces == {TickMs, DEFAULT_DEBOUNCE}
MaxAges == {TickMs, DEFAULT_MAX_AGE}

\* Map.get(sessionId) === undefined
NoPending == [timeoutId |-> 0, timestamp |-> 0]

NoCall == [code |-> 0, at |-> 0, debounceMs |-> 0]

SchedState ==
    [pendingAnalyses |-> pendingAnalyses, timers |-> timers,
     nextTimerId |-> nextTimerId, lastCall |-> lastCall,
     invoked |-> invoked, cancelled |-> cancelled]

cancelPendingAnalysis_clearsSession(st, sessionId) ==
    [st EXCEPT !.timers = {t \in @ : t.session # sessionId},
               !.pendingAnalyses[sessionId] = NoPending]

\* cancelPendingAnalysis (l.30-36)
cancelPendingAnalysis(st, sessionId) ==
    LET pending == st.pendingAnalyses[sessionId]
        s1 == IF pending # NoPending
              THEN [st EXCEPT
                      \* clearTimeout(pending.timeoutId)
                      !.timers = {t \in @ : t.id # pending.timeoutId},
                      !.pendingAnalyses[sessionId] = NoPending]
              ELSE st
    IN  \* history: the timers of the session that outlive the call
        [s1 EXCEPT !.cancelled =
            @ \cup {t.id : t \in {u \in s1.timers : u.session = sessionId}}]

\* scheduleAnalysis (l.10-28) at time t
scheduleAnalysis(st, sessionId, code, callback, debounceMs, t) ==
    LET s1 == cancelPendingAnalysis(st, sessionId)
        timeoutId == s1.nextTimerId
    IN  [s1 EXCEPT
            !.timers = @ \cup {[id |-> timeoutId, session |-> sessionId,
                                code |-> code, callback |-> callback,
                                due |-> t + debounceMs]},
            !.nextTimerId = @ + 1,
            !.pendingAnalyses[sessionId] =
                [timeoutId |-> timeoutId, timestamp |-> t],
            !.lastCall[sessionId] =
                [code |-> code, at |-> t, debounceMs |-> debounceMs],
            !.invoked[sessionId] = 0]

timerBody_clearsAll(st, timer, t) ==
    LET s0 == [st EXCEPT !.timers = @ \ {timer},
                         !.invoked[timer.session] = @ + 1]
        s1 == IF timer.callback = "reschedule"
              THEN scheduleAnalysis(s0, timer.session, timer.code, "plain",
                                    DEFAULT_DEBOUNCE, t)
              ELSE s0
    IN  [s1 EXCEPT !.pendingAnalyses = [s \in Sessions |-> NoPending]]

\* the body of the timer armed by scheduleAnalysis (l.19-22)
timerBody(st, timer, t) ==
    LET s0 == [st EXCEPT !.timers = @ \ {timer},
                         !.invoked[timer.session] = @ + 1]
        \* callback(code)
        s1 == IF timer.callback = "reschedule"
              THEN scheduleAnalysis(s0, timer.session, timer.code, "plain",
                                    DEFAULT_DEBOUNCE, t)
              ELSE s0
    IN  \* this.pendingAnalyses.delete(sessionId)
        [s1 EXCEPT !.pendingAnalyses[timer.session] = NoPending]

RECURSIVE cleanupFrom_atLeast(_, _, _, _)
cleanupFrom_atLeast(st, sessionId, maxAgeMs, t) ==
    IF sessionId > NumSessions
    THEN st
    ELSE LET pending == st.pendingAnalyses[sessionId]
             s1 == IF pending # NoPending /\ t - pending.timestamp >= maxAgeMs
                   THEN cancelPendingAnalysis(st, sessionId)
                   ELSE st
         IN  cleanupFrom_atLeast(s1, sessionId + 1, maxAgeMs, t)

RECURSIVE cleanupFrom(_, _, _, _)
\* the loop of cleanupOldSessions over the sessions from `sessionId` on
cleanupFrom(st, sessionId, maxAgeMs, t) ==
    IF sessionId > NumSessions
    THEN st
    ELSE LET pending == st.pendingAnalyses[sessionId]
             s1 == IF pending # NoPending /\ t - pending.timestamp > maxAgeMs
                   THEN cancelPendingAnalysis(st, sessionId)
                   ELSE st
         IN  cleanupFrom(s1, sessionId + 1, maxAgeMs, t)

SchedCommit(st) ==
    /\ pendingAnalyses' = st.pendingAnalyses
    /\ timers' = st.timers
    /\ nextTimerId' = st.nextTimerId
    /\ lastCall' = st.lastCall
    /\ invoked' = st.invoked
    /\ cancelled' = st.cancelled \cap {t.id : t \in st.timers}

ScheduleAnalysis(sessionId, code, callback, debounceMs) ==
    /\ nextTimerId <= MaxTimers
    /\ SchedCommit(scheduleAnalysis(SchedState, sessionId, code, callback,
                                    debounceMs, now))
    /\ UNCHANGED <<now, nonSchedVars>>

CancelPendingAnalysis(sessionId) ==
    /\ SchedCommit(cancelPendingAnalysis(SchedState, sessionId))
    /\ UNCHANGED <<now, nonSchedVars>>

CleanupOldSessions(maxAgeMs) ==
    /\ SchedCommit(cleanupFrom(SchedState, 1, maxAgeMs, now))
    /\ UNCHANGED <<now, nonSchedVars>>

\* the timers whose delay has elapsed
DueTimers == {t \in timers : t.due <= now}

\* the runtime runs the due timer armed first
TimerFires(timer) ==
    /\ timer \in DueTimers
    /\ \A u \in DueTimers : timer.id <= u.id
    /\ timer.callback = "reschedule" => nextTimerId <= MaxTimers
    /\ SchedCommit(timerBody(SchedState, timer, now))
    /\ UNCHANGED <<now, nonSchedVars>>

\* time passes, up to the next timer that is due
SchedTick ==
    /\ DueTimers = {}
    /\ now < MaxSchedTicks * TickMs
    /\ LET next == now + TickMs IN
       now' = IF \E t \in timers : t.due < next
              THEN CHOOSE d \in {t.due : t \in timers} :
                      \A t \in timers : d <= t.due
              ELSE next
    /\ UNCHANGED <<schedVars, nonSchedVars>>

SchedInit ==
    /\ pendingAnalyses = [s \in Sessions |-> NoPending]
    /\ timers = {}
    /\ nextTimerId = 1
    /\ lastCall = [s \in Sessions |-> NoCall]
    /\ invoked = [s \in Sessions |-> 0]
    /\ cancelled = {}

SchedNext ==
    \/ \E sessionId \in Sessions, code \in Codes, callback \in Callbacks,
          debounceMs \in Debounces :
          ScheduleAnalysis(sessionId, code, callback, debounceMs)
    \/ \E sessionId \in Sessions : CancelPendingAnalysis(sessionId)
    \/ \E maxAgeMs \in MaxAges : CleanupOldSessions(maxAgeMs)
    \/ \E timer \in timers : TimerFires(timer)
    \/ SchedTick

(***************************************************************************)
(* Properties of the analysis scheduler.                                   *)
(***************************************************************************)
ArmedFor(sessionId) == {t \in timers : t.session = sessionId}

\* C9: every session has at most one armed timer.
C9_OneTimerPerSession ==
    \A sessionId \in Sessions : Cardinality(ArmedFor(sessionId)) <= 1

\* C10: a callback invocation is the only one since the session's last
\* scheduleAnalysis call, comes debounceMs after that call and carries its
\* payload.
C10_DebounceLastWins ==
    [][\A timer \in timers :
          TimerFires(timer) =>
              LET call == lastCall[timer.session] IN
              /\ invoked[timer.session] = 0
              /\ timer.code = call.code
              /\ now = call.at + call.debounceMs]_vars

\* C11: the callback of a timer does not run once its session has been
\* cancelled (by cancelPendingAnalysis, by a later scheduleAnalysis of the
\* session or by cleanupOldSessions) after the timer was armed.
C11_CancelledNeverFires ==
    [][\A timer \in timers :
          TimerFires(timer) => timer.id \notin cancelled]_vars

\* C25: cancelPendingAnalysis for a session without a pending record changes
\* no pending record and no timer of any session, and a second call right
\* after it changes nothing either.
C25_CancelNothingIsNoop ==
    [][\A sessionId \in Sessions :
          (pendingAnalyses[sessionId] = NoPending
              /\ CancelPendingAnalysis(sessionId)) =>
             /\ pendingAnalyses' = pendingAnalyses
             /\ timers' = timers
             /\ LET again == cancelPendingAnalysis(SchedState', sessionId)
                IN  /\ again.pendingAnalyses = pendingAnalyses'
                    /\ again.timers = timers']_vars

\* C31: scheduleAnalysis, cancelPendingAnalysis and a firing timer of one
\* session leave the pending record, the timers and the count of callback
\* invocations of every other session as they were: a step that changes
\* one of these for a session is no such operation of another session.
C31_SessionsIndependent ==
    [][\A b \in Sessions :
          (\/ pendingAnalyses'[b] # pendingAnalyses[b]
           \/ ArmedFor(b)' # ArmedFor(b)
           \/ lastCall'[b] # lastCall[b]
           \/ invoked'[b] # invoked[b]) =>
             \A a \in Sessions \ {b} :
                /\ ~CancelPendingAnalysis(a)
                /\ \A timer \in ArmedFor(a) : ~TimerFires(timer)
                /\ \A code \in Codes, callback \in Callbacks,
                      debounceMs \in Debounces :
                      ~ScheduleAnalysis(a, code, callback, debounceMs)]_vars

\* the timer of session 1 has fired while session 2, scheduled before that,
\* has its record and its timer
C31_Witness ==
    /\ invoked[1] = 1
    /\ pendingAnalyses[2] # NoPending
    /\ pendingAnalyses[2].timestamp < lastCall[1].at + lastCall[1].debounceMs
    /\ \E t \in timers : /\ t.id = pendingAnalyses[2].timeoutId
                          /\ t.session = 2

\* C37: a session has a pending record if and only if it has an armed
\* timer, and then the record is the record of that timer.
C37_RecordIffTimer ==
    \A sessionId \in Sessions :
       /\ pendingAnalyses[sessionId] # NoPending <=> ArmedFor(sessionId) # {}
       /\ \A t \in ArmedFor(sessionId) :
             pendingAnalyses[sessionId].timeoutId = t.id

\* C30: cleanupOldSessions(maxAgeMs) removes every pending record older
\* than maxAgeMs together with its timer, which is never armed again (timers
\* that get armed have new ids), and leaves every other pending record and
\* its timer as they were.
C30_SweepCancelsExactlyOld ==
    [][/\ \A t \in timers' \ timers :
             nextTimerId <= t.id /\ t.id < nextTimerId'
       /\ \A maxAgeMs \in MaxAges :
             CleanupOldSessions(maxAgeMs) =>
                \A sessionId \in Sessions :
                   LET pending == pendingAnalyses[sessionId]
                       own(ts) == {t \in ts : t.id = pending.timeoutId}
                   IN  pending # NoPending =>
                          IF now - pending.timestamp > maxAgeMs
                          THEN /\ pendingAnalyses'[sessionId] = NoPending
                               /\ own(timers') = {}
                          ELSE /\ pendingAnalyses'[sessionId] = pending
                               /\ own(timers') = own(timers)]_vars

\* the record of session 1, armed more than TickMs ago with a timer that
\* was not due yet, is gone with its timer, and the record of session 2,
\* armed TickMs ago, is there with its timer
C30_Witness ==
    /\ pendingAnalyses[1] = NoPending
    /\ lastCall[1] # NoCall
    /\ invoked[1] = 0
    /\ now - lastCall[1].at > TickMs
    /\ now < lastCall[1].at + lastCall[1].debounceMs
    /\ ArmedFor(1) = {}
    /\ pendingAnalyses[2] # NoPending
    /\ now - pendingAnalyses[2].timestamp = TickMs
    /\ \E t \in timers : t.id = pendingAnalyses[2].timeoutId

\* cancelPendingAnalysis has been called for a session that had no record
\* but a timer: the second of the two timers armed so far, left without a
\* record when the callback that armed it returned
C25_Witness ==
    /\ nextTimerId = 3
    /\ \E sessionId \in Sessions :
          /\ pendingAnalyses[sessionId] = NoPending
          /\ \E t \in timers : t.session = sessionId /\ t.id = 2
    /\ 2 \in cancelled

(***************************************************************************)
(* Interview page (app/page.tsx).                                          *)
(***************************************************************************)
\* setTimeout(..., 2 * 60 * 1000) of resetAnalysisTimer (l.39)
ANALYSIS_PERIOD == 2 * 60 * 1000

\* analysisTimerRef holds no timeout, or one that was cleared or has run
NoTimer == 0

\* the editor has not changed the code yet
NoEdit == -1

\* how far the clock of the page moves in one step
PageSteps == {1000, ANALYSIS_PERIOD \div 2}

\* the transcripts handleUserSpeech tells apart (l.187-195): "new question"
\* stands for 'new question' and 'next question', "clear" for 'clear' and
\* 'reset', "chat" for any other text
Transcripts == {"new question", "clear", "chat"}

\* who calls handleAnalysis: the button (l.351), the timeout of
\* resetAnalysisTimer (l.37-39), handleUserSpeech (l.190)
Triggers == {"manual", "auto", "voice"}

\* how a fetch('/api/analyze') settles: a body with feedback (an analysis, a
\* fallback or the rate-limit notice), a body without (an error status), or
\* a rejection
Outcomes == {"feedback", "nofeedback", "error"}

\* a state setter of Home: React drops updates of an unmounted component
setState(current, value) == IF mounted THEN value ELSE current

\* const isReadOnly = isAnalyzing || isTTSPlaying (l.24)
isReadOnly == isAnalyzing \/ isTTSPlaying

resetAnalysisTimer_keepsPending ==
    /\ analysisTimer' = IF analysisTimer # NoTimer /\ now < analysisTimer
                        THEN analysisTimer
                        ELSE now + ANALYSIS_PERIOD
    /\ countdownTimer' = TRUE

\* resetAnalysisTimer (l.28-45): both timers are cleared and armed again
resetAnalysisTimer ==
    /\ analysisTimer' = now + ANALYSIS_PERIOD
    /\ countdownTimer' = TRUE

\* setInterviewerResponse(value): the Interviewer appends a non-empty
\* response to its messages and the ElevenLabsTTS of the last message
\* speaks it (InterviewerWithElevenLabs.tsx l.144-164, l.520-526)
setInterviewerResponse(value) ==
    /\ interviewerResponse' = setState(interviewerResponse, value)
    /\ toSpeak' = IF mounted /\ value # "" /\ value # interviewerResponse
                  THEN TRUE ELSE toSpeak

\* handleAnalysis up to its await (l.47-69): the timers are cleared, the
\* page is Analyzing and the request is on its way
handleAnalysis(trigger) ==
    /\ sent < MaxRequests
    /\ analysisTimer' = NoTimer
    /\ countdownTimer' = FALSE
    /\ isAnalyzing' = setState(isAnalyzing, TRUE)
    /\ inFlight' = Append(inFlight, [kind |-> "analysis", trigger |-> trigger])
    /\ sent' = sent + 1

\* the button "Interviewer's Question" (l.350-356), disabled while Analyzing
ManualAnalysis ==
    /\ mounted /\ ~isAnalyzing
    /\ handleAnalysis("manual")
    /\ UNCHANGED <<mounted, pageCode, conversationHistory, interviewerResponse,
                   isTTSPlaying, isSpeaking, toSpeak, pageTicks, now,
                   lastEdit,
                   nonPageVars>>

\* the timeout of resetAnalysisTimer runs handleAnalysisRef.current (l.37-39)
AutoAnalysis ==
    /\ analysisTimer # NoTimer /\ analysisTimer <= now
    /\ handleAnalysis("auto")
    /\ UNCHANGED <<mounted, pageCode, conversationHistory, interviewerResponse,
                   isTTSPlaying, isSpeaking, toSpeak, pageTicks, now,
                   lastEdit,
                   nonPageVars>>

\* the rest of handleAnalysis, after the fetch has settled (l.70-87)
HandleAnalysisEnd(k, outcome) ==
    /\ k \in 1..Len(inFlight) /\ inFlight[k].kind = "analysis"
    /\ inFlight' = RemoveAt(inFlight, k)
    /\ setInterviewerResponse(CASE outcome = "feedback" -> "feedback"
                                []  outcome = "nofeedback" -> interviewerResponse
                                []  outcome = "error" -> "error")
       \* finally
    /\ isAnalyzing' = setState(isAnalyzing, FALSE)
    /\ resetAnalysisTimer
    /\ UNCHANGED <<mounted, pageCode, conversationHistory, isTTSPlaying,
                   isSpeaking, sent, pageTicks, now, lastEdit,
                   nonPageVars>>

\* handleUserSpeech(text) up to its first await (l.178-218)
HandleUserSpeech(text) ==
    /\ mounted
    /\ text # "clear" => conversationHistory < MaxHistory
    /\ CASE text = "new question" ->
              /\ conversationHistory' = conversationHistory + 1
              /\ handleAnalysis("voice")
              /\ UNCHANGED <<pageCode, interviewerResponse, toSpeak>>
         [] text = "clear" ->
              /\ pageCode' = 0
              /\ setInterviewerResponse("")
              /\ conversationHistory' = 0
              /\ UNCHANGED <<isAnalyzing, analysisTimer, countdownTimer,
                             inFlight, sent>>
         [] text = "chat" ->
              /\ sent < MaxRequests
              /\ conversationHistory' = conversationHistory + 1
              /\ setInterviewerResponse("thinking")
              /\ inFlight' = Append(inFlight,
                                    [kind |-> "chat", trigger |-> "chat"])
              /\ sent' = sent + 1
              /\ UNCHANGED <<pageCode, isAnalyzing, analysisTimer,
                             countdownTimer>>
    /\ UNCHANGED <<mounted, isTTSPlaying, isSpeaking, pageTicks, now,
                   lastEdit,
                   nonPageVars>>

\* the rest of handleUserSpeech, after the fetch has settled (l.220-240)
HandleUserSpeechEnd(k, outcome) ==
    /\ k \in 1..Len(inFlight) /\ inFlight[k].kind = "chat"
    /\ inFlight' = RemoveAt(inFlight, k)
    /\ IF outcome = "error"
       THEN /\ setInterviewerResponse("error")
            /\ UNCHANGED conversationHistory
       ELSE \* data.feedback || 'I apologize, ...'
            /\ setInterviewerResponse("feedback")
            /\ conversationHistory' =
                  setState(conversationHistory, conversationHistory + 1)
    /\ UNCHANGED <<mounted, pageCode, isAnalyzing, isTTSPlaying, analysisTimer,
                   countdownTimer, isSpeaking, sent, pageTicks, now,
                   lastEdit,
                   nonPageVars>>

\* handleCodeChange (l.169-172); the editor is read-only while isReadOnly
HandleCodeChange(newCode) ==
    /\ mounted /\ ~isReadOnly
    /\ newCode # pageCode
    /\ pageCode' = newCode
    /\ resetAnalysisTimer
    /\ lastEdit' = now
    /\ UNCHANGED <<mounted, conversationHistory, interviewerResponse,
                   isAnalyzing, isTTSPlaying, isSpeaking, toSpeak, inFlight,
                   sent, pageTicks, now, nonPageVars>>

\* playback of a message starts: ElevenLabsTTS calls onSpeakingChange(true)
\* (layout.tsx l.97), which is the setIsSpeaking of the Interviewer
\* (InterviewerWithElevenLabs.tsx l.125-128, l.526). InterviewerProps
\* (l.43-49) has no onSpeakingChange, so the setIsTTSPlaying that Home
\* passes (page.tsx l.380) is never called and the effect of page.tsx
\* l.94-110 does not run.
PlaybackStarts ==
    /\ mounted /\ toSpeak /\ ~isSpeaking
    /\ isSpeaking' = TRUE
    /\ toSpeak' = FALSE
    /\ UNCHANGED <<mounted, pageCode, conversationHistory, interviewerResponse,
                   isAnalyzing, isTTSPlaying, analysisTimer, countdownTimer,
                   inFlight, sent, pageTicks, now, lastEdit,
                   nonPageVars>>

\* playback ends: onSpeakingChange(false) (layout.tsx l.173)
PlaybackEnds ==
    /\ isSpeaking
    /\ isSpeaking' = FALSE
    /\ UNCHANGED <<mounted, pageCode, conversationHistory, interviewerResponse,
                   isAnalyzing, isTTSPlaying, analysisTimer, countdownTimer,
                   toSpeak, inFlight, sent, pageTicks, now, lastEdit,
                   nonPageVars>>

\* the cleanup of the mount effect (l.114-121)
PageUnmount ==
    /\ mounted
    /\ mounted' = FALSE
    /\ analysisTimer' = NoTimer
    /\ countdownTimer' = FALSE
    /\ UNCHANGED <<pageCode, conversationHistory, interviewerResponse,
                   isAnalyzing, isTTSPlaying, isSpeaking, toSpeak, inFlight,
                   sent, pageTicks, now, lastEdit,
                   nonPageVars>>

\* time passes, no further than the moment the timeout is due
PageTick(d) ==
    /\ pageTicks < MaxPageTicks
    /\ analysisTimer = NoTimer \/ now < analysisTimer
    /\ now' = IF analysisTimer # NoTimer /\ analysisTimer < now + d
              THEN analysisTimer ELSE now + d
    /\ pageTicks' = pageTicks + 1
    /\ UNCHANGED <<mounted, pageCode, conversationHistory, interviewerResponse,
                   isAnalyzing, isTTSPlaying, analysisTimer, countdownTimer,
                   isSpeaking, toSpeak, inFlight, sent, lastEdit,
                   nonPageVars>>

\* Home after its mount effects: resetAnalysisTimer has run (l.112-113) and
\* the Interviewer has its greeting to speak
PageInit ==
    /\ mounted = TRUE
    /\ pageCode = 0
    /\ conversationHistory = 0
    /\ interviewerResponse = ""
    /\ isAnalyzing = FALSE
    /\ isTTSPlaying = FALSE
    /\ analysisTimer = ANALYSIS_PERIOD
    /\ countdownTimer = TRUE
    /\ isSpeaking = FALSE
    /\ toSpeak = TRUE
    /\ inFlight = <<>>
    /\ sent = 0
    /\ pageTicks = 0
    /\ lastEdit = NoEdit

PageNext ==
    \/ ManualAnalysis
    \/ AutoAnalysis
    \/ \E k \in 1..Len(inFlight), outcome \in Outcomes :
          HandleAnalysisEnd(k, outcome)
    \/ \E text \in Transcripts : HandleUserSpeech(text)
    \/ \E k \in 1..Len(inFlight), outcome \in Outcomes :
          HandleUserSpeechEnd(k, outcome)
    \/ \E newCode \in 0..NumCodes : HandleCodeChange(newCode)
    \/ PlaybackStarts
    \/ PlaybackEnds
    \/ PageUnmount
    \/ \E d \in PageSteps : PageTick(d)

(***************************************************************************)
(* Properties of the interview page.                                       *)
(***************************************************************************)
\* C33: every edit arms the one timeout of the auto-analysis afresh, a full
\* period ahead; the timeout runs handleAnalysis when it is due, not
\* before and not again, so that no automatic analysis starts less than a
\* period after an edit and the one that follows a burst of edits starts a
\* full period after the last of them.
C33_EditsDebounced ==
    [][/\ (\E newCode \in 0..NumCodes : HandleCodeChange(newCode)) =>
             analysisTimer' = now + ANALYSIS_PERIOD
       /\ AutoAnalysis =>
             /\ now = analysisTimer
             /\ analysisTimer' = NoTimer
             /\ lastEdit # NoEdit => now >= lastEdit + ANALYSIS_PERIOD
             /\ analysisTimer = lastEdit + ANALYSIS_PERIOD =>
                   now = lastEdit + ANALYSIS_PERIOD]_vars

\* the automatic analysis has started a full period after an edit that
\* came after the page was mounted
C33_Witness ==
    /\ lastEdit > 0
    /\ now = lastEdit + ANALYSIS_PERIOD
    /\ \E k \in 1..Len(inFlight) : inFlight[k].trigger = "auto"

\* C12: at most one request to the analysis backend is in flight.
C12_OneInFlight == Len(inFlight) <= 1

\* C13: the timeout of the auto-analysis does not run handleAnalysis while
\* the interviewer is speaking.
C13_NoAutoAnalysisWhileSpeaking ==
    [][AutoAnalysis => ~isSpeaking]_vars

\* C14: when playback ends the auto-analysis timeout is armed afresh, due
\* one full period later.
C14_RearmedWhenPlaybackEnds ==
    [][(mounted /\ isSpeaking /\ ~isSpeaking') =>
          analysisTimer' = now + ANALYSIS_PERIOD]_vars

\* C17: a voice command empties the conversation history and the code
\* buffer, sends no request and does not make the page Analyzing.
C17_VoiceCommandClearsAndStaysIdle ==
    [][\A text \in {"new question", "clear"} :
          HandleUserSpeech(text) =>
              /\ conversationHistory' = 0
              /\ pageCode' = 0
              /\ inFlight' = inFlight
              /\ sent' = sent
              /\ isAnalyzing' = isAnalyzing]_vars

\* a request of the button is in flight
ManualInFlight(requests) ==
    \E k \in 1..Len(requests) : requests[k].trigger = "manual"

\* C18: a manual request clears the auto-analysis timeout, makes the page
\* Analyzing and sends the request at once, and the timeout is not armed
\* again while that request is in flight.
C18_ManualCancelsTimer ==
    [][/\ ManualAnalysis =>
            /\ analysisTimer' = NoTimer
            /\ isAnalyzing'
            /\ Len(inFlight') = Len(inFlight) + 1
       /\ ManualInFlight(inFlight') => analysisTimer' = NoTimer]_vars

\* C19: once Home is unmounted no timer of the page is armed and no
\* request is sent any more.
C19_NothingAfterUnmount ==
    [][~mounted' =>
          /\ analysisTimer' = NoTimer
          /\ ~countdownTimer'
          /\ ~mounted => sent' = sent]_vars

(***************************************************************************)
(* Fallback analyzer: analyze applied to pieces of code.                   *)
(***************************************************************************)
\* the fewest characters a text matching the pattern of a rule has:
\* 'for(', 'if(', 'function a(', 'const a=()=>', 'console.log'
MinLength ==
    [name \in {RULES[n].name : n \in 1..Len(RULES)} |->
        CASE name = "loop" -> 4
          [] name = "conditional" -> 3
          [] name = "function" -> 11
          [] name = "arrow" -> 12
          [] name = "consoleLog" -> 11]

RECURSIVE SumMinLength(_)
SumMinLength(names) ==
    IF names = {}
    THEN 0
    ELSE LET name == CHOOSE x \in names : TRUE
         IN  MinLength[name] + SumMinLength(names \ {name})

\* the pieces of code given to analyze: a text of the given trimmed length
\* can match the given rules one after the other
AnalyzerInputs ==
    {c \in [len : 0..MaxShortLen \cup {LongLen},
            matches : SUBSET DOMAIN MinLength] :
        SumMinLength(c.matches) <= c.len}

\* FallbackAnalyzer.analyze(code)
Analyze(codeInput, pick) ==
    /\ analyzedCode' = codeInput
    /\ analyzeResult' = analyze(codeInput, pick)
    /\ UNCHANGED nonAnalyzerVars

AnalyzerInit ==
    /\ analyzedCode = [len |-> 0, matches |-> {}]
    /\ analyzeResult = NoText

AnalyzerNext ==
    \E codeInput \in AnalyzerInputs :
       \E pick \in Picks(codeInput) : Analyze(codeInput, pick)

\* C22: for every code that is empty or shorter than 10 characters analyze
\* returns the 'keep going' message, whatever rules the code matches.
C22_ShortCodeKeepGoing ==
    (analyzeResult # NoText /\ analyzedCode.len < MIN_LENGTH) =>
        analyzeResult = KeepGoing

\* a short text that matches rules has been analyzed
C22_Witness ==
    /\ analyzeResult = KeepGoing
    /\ analyzedCode.len = MIN_LENGTH - 1
    /\ analyzedCode.matches = {"loop", "conditional"}

\* the rules the analyzed code matches
Matching == {n \in 1..Len(RULES) : RULES[n].name \in analyzedCode.matches}

\* C23: for code of at least 10 characters that matches a rule, analyze
\* returns the feedback of the matching rule of the highest priority, the
\* first declared among those of equal priority.
C23_HighestPriorityWins ==
    (analyzeResult # NoText /\ analyzedCode.len >= MIN_LENGTH
        /\ Matching # {}) =>
        \E n \in Matching :
            /\ analyzeResult = RULES[n].feedback
            /\ \A m \in Matching :
                  \/ RULES[m].priority < RULES[n].priority
                  \/ RULES[m].priority = RULES[n].priority /\ n <= m

\* code matching rules of all three priorities has been analyzed
C23_Witness ==
    /\ analyzedCode.matches = {"loop", "function", "arrow", "consoleLog"}
    /\ analyzeResult.text = "consoleLog"

\* the pool of generic strings
Pool == {defaultResponses[n] : n \in 1..Len(defaultResponses)}

\* C32: for code of at least 10 characters that matches no rule analyze
\* returns a member of the pool, each member of the pool can be returned
\* for each such code, and no call returns an empty text.
C32_GenericPool ==
    /\ analyzeResult # NoText => analyzeResult.len > 0
    /\ (analyzeResult # NoText /\ analyzedCode.len >= MIN_LENGTH
           /\ Matching = {}) =>
          analyzeResult \in Pool
    /\ \A codeInput \in AnalyzerInputs :
          (codeInput.len >= MIN_LENGTH /\ codeInput.matches = {}) =>
             \A r \in Pool :
                ENABLED (\E pick \in Picks(codeInput) :
                            Analyze(codeInput, pick) /\ analyzeResult' = r)

\* the last string of the pool has been returned for code without a match
C32_Witness ==
    /\ analyzedCode = [len |-> LongLen, matches |-> {}]
    /\ analyzeResult = defaultResponses[Len(defaultResponses)]

\* C24, as claimed: for code of at least 10 characters with a for-loop
\* analyze returns the feedback of the loop rule, whatever other rules the
\* code matches.
C24_LoopFeedbackAlways ==
    (analyzeResult # NoText /\ analyzedCode.len >= MIN_LENGTH
        /\ "loop" \in analyzedCode.matches) =>
        analyzeResult.text = "loop"

\* C24, amended: it does so when no rule of a higher priority (function,
\* arrow function, console.log) matches the code; the conditional rule may
\* match as well.
C24_LoopFeedbackAmongLowest ==
    (analyzeResult # NoText /\ analyzedCode.len >= MIN_LENGTH
        /\ "loop" \in analyzedCode.matches
        /\ analyzedCode.matches \subseteq {"loop", "conditional"}) =>
        analyzeResult.text = "loop"

\* code with a for-loop and a conditional has been analyzed
C24_Witness ==
    /\ analyzedCode.len >= MIN_LENGTH
    /\ analyzedCode.matches = {"loop", "conditional"}
    /\ analyzeResult.text = "loop"

(***************************************************************************)
(* ClientRateLimiter: canMakeRequest called while time passes.             *)
(***************************************************************************)
\* private readonly MIN_INTERVAL = 3000  (l.39)
MIN_INTERVAL == 3000

\* Date.now() when the clock of the model is at 0: the limiter is made long
\* after 1970, so that lastRequestTime = 0 is far more than MIN_INTERVAL
\* in the past (the value is kept within the integers of TLC)
START_TIME == 1000000000

\* Date.now()
DateNow == START_TIME + now

\* the clock moves by a millisecond or by just less than MIN_INTERVAL
ClientClockSteps == {1, MIN_INTERVAL - 1}

canMakeRequest_atLeast(last, t) ==
    IF t - last >= MIN_INTERVAL
    THEN [lastRequestTime |-> t, returns |-> TRUE]
    ELSE [lastRequestTime |-> last, returns |-> FALSE]

\* canMakeRequest (l.41-48) at Date.now() = t
canMakeRequest(last, t) ==
    IF t - last > MIN_INTERVAL
    THEN [lastRequestTime |-> t, returns |-> TRUE]
    ELSE [lastRequestTime |-> last, returns |-> FALSE]

CanMakeRequest ==
    /\ clientSteps < MaxClientSteps
    /\ LET r == canMakeRequest(lastRequestTime, DateNow) IN
         /\ lastRequestTime' = r.lastRequestTime
         /\ granted' = r.returns
         /\ grants' = IF r.returns THEN Append(grants, DateNow) ELSE grants
    /\ clientSteps' = clientSteps + 1
    /\ UNCHANGED <<now, nonClientVars>>

\* time passes
ClientTick(d) ==
    /\ clientSteps < MaxClientSteps
    /\ now' = now + d
    /\ clientSteps' = clientSteps + 1
    /\ UNCHANGED <<lastRequestTime, granted, grants, nonClientVars>>

ClientInit ==
    /\ lastRequestTime = 0
    /\ granted = FALSE
    /\ grants = <<>>
    /\ clientSteps = 0

ClientNext ==
    \/ CanMakeRequest
    \/ \E d \in ClientClockSteps : ClientTick(d)

\* C38: the calls of canMakeRequest that return true are more than
\* MIN_INTERVAL apart from each other, and a call that returns false leaves
\* lastRequestTime as it was.
C38_GrantsSpaced ==
    [][CanMakeRequest =>
          /\ ~granted' => lastRequestTime' = lastRequestTime
          /\ \A m, n \in 1..Len(grants') :
                m < n => grants'[n] - grants'[m] > MIN_INTERVAL]_vars

\* after two grants MIN_INTERVAL + 1 ms apart a call has been refused
C38_Witness ==
    /\ Len(grants) = 2
    /\ grants[2] - grants[1] = MIN_INTERVAL + 1
    /\ ~granted
    /\ DateNow - lastRequestTime = MIN_INTERVAL

(***************************************************************************)
(* Specifications.                                                         *)
(***************************************************************************)
Init ==
    AudioInit /\ RlInit /\ SchedInit /\ PageInit /\ AnalyzerInit /\ ClientInit

AudioSpec == Init /\ [][AudioNext]_vars

RateLimitSpec == Init /\ [][RlNext]_vars

SchedulerSpec == Init /\ [][SchedNext]_vars

PageSpec == Init /\ [][PageNext]_vars

AnalyzeSpec == Init /\ [][AnalyzeNext]_vars

RetrySpec == Init /\ [][RetryNext]_vars

CrowdSpec == Init /\ [][CrowdNext]_vars

ClientSpec == Init /\ [][ClientNext]_vars

AnalyzerSpec == Init /\ [][AnalyzerNext]_vars

====
